---- MODULE Spec2Model ----
(***************************************************************************)
(* Jigsaw Encryption System (src/jigsaw.py): a JigsawFile instance, the    *)
(* files it reads and writes, and the runs of setting(), encrypt() and     *)
(* decrypt() on it.                                                        *)
(*                                                                         *)
(* Data representation.                                                    *)
(*   - a file content (bytes) is a sequence over Bytes;                    *)
(*   - a text string is a sequence of tokens (TLA+ strings); the tokens    *)
(*     ">>" (the key file delimiter), " " (white space), "#" and ".jig"    *)
(*     are the ones the code looks at, every other token is opaque text;   *)
(*   - a text file is a sequence of lines, each a string without its       *)
(*     trailing newline.                                                   *)
(***************************************************************************)
EXTENDS Integers, Sequences, FiniteSets, TLC

\* ------------------------------------------------------------------ bounds
MaxLen == 3        \* longest source file / fragment content, in bytes
MaxBlock == 2      \* largest block size handed to setting('blocksize', v)
MaxChars == 3      \* how many characters of `mapping' rchoice() draws from
MaxRuns == 2       \* encrypt()/decrypt() calls made on the instance

\* The source files: one per length 0..MaxLen, all bytes different, so that
\* a skipped, repeated or misplaced byte shows.
ByteAt == <<"a", "b", "c", "d", "e", "f", "g", "h">>

SourceFiles == {SubSeq(ByteAt, 1, k) : k \in 0..MaxLen}

\* The values the caller hands to setting().
BlockSizes == (0 - 1)..MaxBlock
NameLengths == {0 - 1, 0, 1}
HashLengths == {0, 16}
Verbosities == {1, 2, 3}
Versions == {1, 2, 3, 4}

Min(a, b) == IF a < b THEN a ELSE b

\* ------------------------------------------------- python string helpers
Delim == ">>"

Digits == <<"0", "1", "2", "3", "4", "5", "6", "7", "8", "9">>

\* str(n) of a natural number: its decimal digits.
RECURSIVE str(_)
str(n) ==
    IF n < 10 THEN <<Digits[n + 1]>>
    ELSE str(n \div 10) \o <<Digits[(n % 10) + 1]>>

isDigit(c) == \E d \in 1..10 : Digits[d] = c

digitValue(c) == (CHOOSE d \in 1..10 : Digits[d] = c) - 1

\* int(s) succeeds on a non-empty string of digits (ValueError otherwise).
isInt(s) == s # <<>> /\ \A i \in 1..Len(s) : isDigit(s[i])

RECURSIVE int(_)
int(s) ==
    IF Len(s) = 1 THEN digitValue(s[1])
    ELSE 10 * int(SubSeq(s, 1, Len(s) - 1)) + digitValue(s[Len(s)])

\* abs(int(value)) of setting()
abs(v) == IF v < 0 THEN 0 - v ELSE v

RECURSIVE lstrip(_)
lstrip(s) == IF s # <<>> /\ Head(s) = " " THEN lstrip(Tail(s)) ELSE s

RECURSIVE rstrip(_)
rstrip(s) ==
    IF s # <<>> /\ s[Len(s)] = " " THEN rstrip(SubSeq(s, 1, Len(s) - 1)) ELSE s

\* s.strip()
strip(s) == rstrip(lstrip(s))

\* '>>'.join(fields)
RECURSIVE join(_)
join(fields) ==
    IF fields = <<>> THEN <<>>
    ELSE IF Len(fields) = 1 THEN fields[1]
    ELSE fields[1] \o <<Delim>> \o join(Tail(fields))

\* s.split('>>'): the fields between the delimiter tokens (always >= 1).
RECURSIVE splitFrom(_, _, _)
splitFrom(s, i, cur) ==
    IF i > Len(s) THEN <<cur>>
    ELSE IF s[i] = Delim THEN <<cur>> \o splitFrom(s, i + 1, <<>>)
    ELSE splitFrom(s, i + 1, Append(cur, s[i]))

split(s) == splitFrom(s, 1, <<>>)

\* The elements of a sequence.
Range(s) == {s[i] : i \in 1..Len(s)}

\* Concatenation of a sequence of sequences.
RECURSIVE Flatten(_)
Flatten(ss) == IF ss = <<>> THEN <<>> ELSE Head(ss) \o Flatten(Tail(ss))

\* A set as a list, in an order fixed by the file system (os.listdir).
RECURSIVE SetToSeq(_)
SetToSeq(S) ==
    IF S = {} THEN <<>>
    ELSE LET x == CHOOSE y \in S : TRUE IN <<x>> \o SetToSeq(S \ {x})

\* ------------------------------------------------------------ hashlib
\* hashlib digests are modelled as collision free: the hex digest of a byte
\* string spells its length and its bytes.
fingerprint(data) == str(Len(data)) \o data

\* Number of characters of a sha256 hex digest (64 in hashlib).
HashWidth == MaxLen + 1

\* JigsawCore.hash(block).hexdigest(): a digest of fixed width.
hexdigest(block) ==
    fingerprint(block) \o [i \in 1..(HashWidth - Len(block) - 1) |-> "0"]

\* s[:n]
prefix(s, n) == SubSeq(s, 1, Min(n, Len(s)))

HashNames == <<"md5", "sha1", "sha224", "sha256", "sha384", "sha512">>

\* JigsawCore.generateHash: [md5, sha1, sha224, sha256, sha384, sha512]
generateHash(data) == [i \in 1..6 |-> <<HashNames[i]>> \o fingerprint(data)]

\* ------------------------------------------------------------ paths
Sep == "/"

RECURSIVE splitSepFrom(_, _, _)
splitSepFrom(s, i, cur) ==
    IF i > Len(s) THEN <<cur>>
    ELSE IF s[i] = Sep THEN <<cur>> \o splitSepFrom(s, i + 1, <<>>)
    ELSE splitSepFrom(s, i + 1, Append(cur, s[i]))

\* path.split(os.sep)
splitSep(s) == splitSepFrom(s, 1, <<>>)

\* os.sep.join(parts)
RECURSIVE joinSep(_)
joinSep(parts) ==
    IF parts = <<>> THEN <<>>
    ELSE IF Len(parts) = 1 THEN parts[1]
    ELSE parts[1] \o <<Sep>> \o joinSep(Tail(parts))

\* The arguments of the runs: the source file, and the directory the
\* fragments and the key file go to and are read from.
SrcFileName == <<"in", Sep, "src">>
OutDirName == <<"out">>

\* ------------------------------------------------------------ state
VARIABLES
    \* JigsawFile settings
    slicer, block_size, filename_length, hashlength, version, verbose,
    \* JigsawFile fields used by a run
    fileList, header, checksums, keyhead, keycode, inputdir, outputdir,
    \* the files: source file, fragment directory (file name -> content),
    \* key file (.jgk), decrypted file and audit file (.jkd)
    srcFile, jigDir, keyFile, outFile, auditFile,
    \* position of the caller in encrypt()/decrypt() and their locals
    pc, loc,
    \* how the last run ended, and how many runs were started
    result, runs,
    \* history of the current encrypt run
    hist,
    \* what was done to the files behind the program's back since then
    env

settings == <<slicer, block_size, filename_length, hashlength, version, verbose>>
fields == <<fileList, header, checksums, keyhead, keycode, inputdir, outputdir>>
files == <<srcFile, jigDir, keyFile, outFile, auditFile>>
vars == <<settings, fields, files, pc, loc, result, runs, hist, env>>

\* A file that does not exist / a file with the content c.
NoFile == [exists |-> FALSE, data |-> <<>>]
File(c) == [exists |-> TRUE, data |-> c]

NoLoc == [count |-> 0, fpos |-> 0, block |-> <<>>, blockInit |-> FALSE,
          ofileName |-> <<>>, block_sequence |-> <<>>, idx |-> 0,
          expected |-> 0, actual |-> 0, error |-> "", failedAt |-> ""]

NoHist == [yielded |-> <<>>, names |-> <<>>, preexisting |-> {},
           returned |-> FALSE]

NoEnv == [kind |-> "none", name |-> <<>>, old |-> <<>>]

\* JigsawFile.__init__, a source file and an empty output directory.
Init ==
    /\ slicer = "even"
    /\ block_size = 4096
    /\ filename_length = 30
    /\ hashlength = 16
    /\ version = "JigsawFileONE"
    /\ verbose = 1
    /\ fileList = <<>>
    /\ header = <<>>
    /\ checksums = <<>>
    /\ keyhead = <<>>
    /\ keycode = <<>>
    /\ inputdir = <<>>
    /\ outputdir = <<>>
    /\ srcFile \in SourceFiles
    /\ jigDir = <<>>
    /\ keyFile = NoFile
    /\ outFile = NoFile
    /\ auditFile = NoFile
    /\ pc = "idle"
    /\ loc = NoLoc
    /\ result = "none"
    /\ runs = 0
    /\ hist = NoHist
    /\ env = NoEnv

\* ------------------------------------------------------------ setting()
\* JigsawFile.setting(key, value)
setting(key, value) ==
    /\ pc = "idle"
    /\ slicer' = IF key = "slicer"
                 THEN (IF value = "uneven" THEN "uneven" ELSE "even")
                 ELSE slicer
    /\ block_size' = IF key = "blocksize" THEN abs(value) ELSE block_size
    /\ filename_length' =
           IF key = "filenamelength" THEN abs(value) ELSE filename_length
    /\ version' = IF key = "version" /\ value = 1 THEN "JigsawFileONE"
                  ELSE IF key = "version" /\ value = 2 THEN "JigsawFileTWO"
                  ELSE IF key = "version" /\ value = 3 THEN "JigsawFileTHREE"
                  ELSE version
    /\ hashlength' = IF key = "hashlength" THEN abs(value) ELSE hashlength
    /\ verbose' = IF key = "verbose" THEN abs(value) ELSE verbose
    /\ UNCHANGED <<fields, files, pc, loc, result, runs, hist, env>>

\* The calls of setting() the caller makes.
\* The calls of setting() the caller makes: the instance is configured
\* before its first run.
SettingCall ==
    /\ runs = 0
    /\ \/ \E v \in {"even", "uneven"} : setting("slicer", v)
       \/ \E v \in BlockSizes : setting("blocksize", v)
       \/ \E v \in NameLengths : setting("filenamelength", v)
       \/ \E v \in Versions : setting("version", v)
       \/ \E v \in HashLengths : setting("hashlength", v)
       \/ \E v \in Verbosities : setting("verbose", v)

\* ------------------------------------------------------------ encrypt()
\* JigsawFile._addHeader(key, value) on the header mapping h (a dict, kept
\* in insertion order).
addHeader(h, key, value) ==
    LET k == IF key # <<>> /\ Head(key) = "#" THEN key ELSE <<"#">> \o key
    IN  IF \E i \in 1..Len(h) : h[i].k = k
        THEN [i \in 1..Len(h) |-> IF h[i].k = k THEN [k |-> k, v |-> value]
                                  ELSE h[i]]
        ELSE Append(h, [k |-> k, v |-> value])

\* The header after the ten _addHeader calls of encrypt().
encryptHeader(h, ver, indir, infile, hlen, sums) ==
    LET h1 == addHeader(h, <<"version">>, <<ver>>)
        h2 == addHeader(h1, <<"inputdir">>, indir)
        h3 == addHeader(h2, <<"infile">>, infile)
        h4 == addHeader(h3, <<"hashlength">>, str(hlen))
        h5 == addHeader(h4, <<"md5">>, sums[1])
        h6 == addHeader(h5, <<"sha1">>, sums[2])
        h7 == addHeader(h6, <<"sha224">>, sums[3])
        h8 == addHeader(h7, <<"sha256">>, sums[4])
        h9 == addHeader(h8, <<"sha384">>, sums[5])
    IN  addHeader(h9, <<"sha512">>, sums[6])

\* JigsawFile._writeKeyHeader: the lines written to the fresh key file.
writeKeyHeader(h) == [i \in 1..Len(h) |-> join(<<h[i].k, h[i].v>>)]

\* x.endswith('.jig') and x.split('.')[0] of a directory entry.
endswithJig(x) == x # <<>> /\ x[Len(x)] = ".jig"

RECURSIVE beforeDot(_)
beforeDot(x) ==
    IF x = <<>> \/ Head(x) = ".jig" THEN <<>>
    ELSE <<Head(x)>> \o beforeDot(Tail(x))

\* encrypt(), lines 471-473: the collision list at the start of a run.
seedFileList(dir) ==
    LET jigs == SetToSeq({x \in DOMAIN dir : endswithJig(x)})
    IN  [i \in 1..Len(jigs) |-> beforeDot(jigs[i])]

\* encrypt() up to the dispatch on the version (lines 468-492).  The caller
\* encrypts with a block size and a name length of the model's ranges, and
\* makes MaxRuns runs at most.  The key file is written through a buffered
\* handle; the model shows what it holds once flushed.
encrypt ==
    /\ pc = "idle"
    /\ runs < MaxRuns
    /\ block_size <= MaxBlock
    /\ filename_length \in {abs(v) : v \in NameLengths}
    /\ runs' = runs + 1
    /\ result' = "running"
    /\ inputdir' = joinSep(SubSeq(splitSep(SrcFileName), 1,
                                  Len(splitSep(SrcFileName)) - 1))
    /\ outputdir' = OutDirName
    /\ fileList' = seedFileList(jigDir)
    /\ checksums' = generateHash(srcFile)
    /\ header' = encryptHeader(header, version, inputdir', SrcFileName,
                               hashlength, checksums')
    /\ keyFile' = File(writeKeyHeader(header'))
    /\ loc' = [NoLoc EXCEPT !.blockInit = TRUE]
    /\ hist' = [NoHist EXCEPT !.preexisting = DOMAIN jigDir]
    /\ env' = NoEnv
    /\ pc' = IF version = "JigsawFileONE" THEN "encrypt1" ELSE "close"
    /\ UNCHANGED <<settings, keyhead, keycode, srcFile, jigDir, outFile,
                   auditFile>>

\* A read that loses the byte at the file position.
readSkipping(data, pos, n) == SubSeq(data, pos + 2, Min(pos + n, Len(data)))

\* f.read(n) at position pos of a file holding data.
read(data, pos, n) == SubSeq(data, pos + 1, Min(pos + n, Len(data)))

\* `while block:' of the slicers: the initial True or a non-empty block.
blockTruthy == loc.blockInit \/ loc.block # <<>>

\* One resumption of a slicer generator by the for loop of _encrypt1: read
\* and yield the next block of n bytes, or return when `while block' fails.
sliceNext(n) ==
    IF blockTruthy
    THEN LET b == read(srcFile, loc.fpos, n)
         IN  /\ loc' = [loc EXCEPT !.block = b, !.blockInit = FALSE,
                                   !.fpos = loc.fpos + Len(b)]
             /\ hist' = [hist EXCEPT !.yielded = Append(hist.yielded, b)]
             /\ pc' = "generateFilename"
    ELSE /\ pc' = "close"
         /\ UNCHANGED <<loc, hist>>

\* JigsawCore.evenSlicer, resumed from _encrypt1 (lines 432-433).
evenSlicer ==
    /\ pc = "encrypt1"
    /\ slicer = "even"
    /\ sliceNext(block_size)
    /\ UNCHANGED <<settings, fields, files, result, runs, env>>

\* int(rfloat() * (max - min)) + min for rfloat() in [0, 1).
unevenSizes(min_block_size, max_block_size) ==
    LET d == max_block_size - min_block_size
    IN  {min_block_size + k : k \in 0..(IF d > 0 THEN d - 1 ELSE 0)}

\* JigsawCore.unevenSlicer, resumed from _encrypt1 (lines 442-444).
unevenSlicer ==
    /\ pc = "encrypt1"
    /\ slicer = "uneven"
    /\ \E n \in unevenSizes(block_size, block_size * 2) : sliceNext(n)
    /\ UNCHANGED <<settings, fields, files, result, runs, env>>

\* The characters rchoice() draws from.
mapping == <<"1", "2", "3", "4", "5", "6", "7", "8", "9", "A",
             "B", "C", "D", "E", "F", "G", "H", "I", "J", "K",
             "L", "M", "N", "O", "P", "Q", "R", "S", "T", "U",
             "V", "W", "X", "Y", "Z", "a", "b", "d", "e", "g",
             "h", "q", "r", "t">>

\* The names one pass of the loop of _generateFilename can draw.
randomNames(n) ==
    {cs \o <<".jig">> : cs \in [1..n -> {mapping[i] : i \in 1..MaxChars}]}

\* A collision test that accepts every name.
alwaysFree(randomName, list) == TRUE

\* `randomName not in self.fileList'
notInFileList(randomName, list) == randomName \notin Range(list)

\* JigsawFile._generateFilename: one pass of its `while True' loop.
generateFilename ==
    /\ pc = "generateFilename"
    /\ \E randomName \in randomNames(filename_length) :
          IF notInFileList(randomName, fileList)
          THEN /\ fileList' = Append(fileList, randomName)
               /\ loc' = [loc EXCEPT !.ofileName = randomName]
               /\ hist' = [hist EXCEPT !.names = Append(hist.names, randomName)]
               /\ pc' = "writeJigsawFile"
          ELSE UNCHANGED <<fileList, loc, hist, pc>>
    /\ UNCHANGED <<settings, header, checksums, keyhead, keycode, inputdir,
                   outputdir, files, result, runs, env>>

\* A body line whose sequence number counts from 1.
bodyLineCountFromOne(count, block, dir, ofileName, hash) ==
    join(<<<<"AA">>, str(count + 1), str(Len(block)), dir, ofileName, hash>>)

\* The body line _encrypt1 writes for a block (lines 435-436).
bodyLine(count, block, dir, ofileName, hash) ==
    join(<<<<"AA">>, str(count), str(Len(block)), dir, ofileName, hash>>)

\* The directory after open(name, 'wb').write(content): created or replaced.
writeFile(dir, name, content) ==
    [x \in DOMAIN dir \cup {name} |-> IF x = name THEN content ELSE dir[x]]

\* JigsawFile._writeJigsawFile after the name is generated, and the rest of
\* the loop body of _encrypt1 (lines 404-408, 435-439).
writeJigsawFile ==
    /\ pc = "writeJigsawFile"
    /\ jigDir' = writeFile(jigDir, loc.ofileName, loc.block)
    /\ keyFile' = File(Append(keyFile.data,
                     bodyLine(loc.count, loc.block, outputdir, loc.ofileName,
                              prefix(hexdigest(loc.block), hashlength))))
    /\ loc' = [loc EXCEPT !.count = loc.count + 1]
    /\ pc' = "encrypt1"
    /\ UNCHANGED <<settings, fields, srcFile, outFile, auditFile, result,
                   runs, hist, env>>

\* The end of encrypt() (lines 493-497): num_blocks is bound only when
\* _encrypt1 ran, str(num_blocks) raises UnboundLocalError otherwise.
encryptReturn ==
    /\ pc = "close"
    /\ result = "running"
    /\ result' = IF version = "JigsawFileONE" THEN "returned" ELSE "raised"
    /\ hist' = [hist EXCEPT !.returned = (version = "JigsawFileONE")]
    /\ pc' = "idle"
    /\ UNCHANGED <<settings, fields, files, loc, runs, env>>

\* ------------------------------------------------------------ decrypt()
startswithHash(x) == x # <<>> /\ Head(x) = "#"

\* _readKeyFile, lines 505-507: the stripped, non-empty lines.
keydataOf(lines) ==
    SelectSeq([i \in 1..Len(lines) |-> strip(lines[i])], LAMBDA x : x # <<>>)

\* Header lines split at '>>' with their '#' kept.
headerItemsKeepHash(keydata) ==
    LET hs == SelectSeq(keydata, startswithHash)
    IN  [i \in 1..Len(hs) |-> split(hs[i])]

\* _readKeyFile, lines 509-510: header lines without '#', split at '>>'.
headerItems(keydata) ==
    LET hs == SelectSeq(keydata, startswithHash)
    IN  [i \in 1..Len(hs) |-> split(Tail(hs[i]))]

\* _readKeyFile, lines 511-512: the mapping built from the first n items
\* (a later line of the same field replaces an earlier one).
keyheadOf(items, n) ==
    LET name(i) == strip(items[i][1])
        last(k) == CHOOSE i \in 1..n :
                      /\ name(i) = k
                      /\ \A j \in (i + 1)..n : name(j) # k
    IN  [k \in {name(i) : i \in 1..n} |-> strip(items[last(k)][2])]

\* First header item without a value (item[1] raises IndexError), or 0.
badHeaderItem(items) ==
    IF \E i \in 1..Len(items) : Len(items[i]) < 2
    THEN CHOOSE i \in 1..Len(items) :
            /\ Len(items[i]) < 2
            /\ \A j \in 1..(i - 1) : Len(items[j]) >= 2
    ELSE 0

\* _readKeyFile, lines 515-517: body lines as lists of stripped fields.
codeOf(keydata) ==
    LET cs == SelectSeq(keydata, LAMBDA x : ~startswithHash(x))
    IN  [i \in 1..Len(cs) |->
            LET fs == split(cs[i]) IN [j \in 1..Len(fs) |-> strip(fs[j])]]

\* int(x[1]) of a body line x (IndexError or ValueError when it fails).
hasBlockcount(x) == Len(x) >= 2 /\ isInt(x[2])

\* First body line whose int(x[1]) raises, or 0.
badCodeLine(code) ==
    IF \E i \in 1..Len(code) : ~hasBlockcount(code[i])
    THEN CHOOSE i \in 1..Len(code) :
            /\ ~hasBlockcount(code[i])
            /\ \A j \in 1..(i - 1) : hasBlockcount(code[j])
    ELSE 0

\* x[2:]
from2(x) == SubSeq(x, 3, Len(x))

\* A section keyed by the position of the line in the key file.
sectionByLine(code, n) == [b \in 0..(n - 1) |-> from2(code[b + 1])]

\* _readKeyFile, lines 538-540: the inner loop over the first n body lines,
\* blockcount -> x[2:], a later line replacing an earlier one.
sectionOf(code, n) ==
    LET bc(i) == int(code[i][2])
        last(b) == CHOOSE i \in 1..n :
                      /\ bc(i) = b
                      /\ \A j \in (i + 1)..n : bc(j) # b
    IN  [b \in {bc(i) : i \in 1..n} |-> from2(code[last(b)])]

\* _readKeyFile, lines 518 and 536-540: every section gets every body line.
keycodeOf(code) ==
    [section \in {code[i][1] : i \in 1..Len(code)} |-> sectionOf(code, Len(code))]

\* A failing step that is skipped, the run going on with the next fragment.
skipFragment(error, at) ==
    /\ pc' = pc
    /\ result' = result
    /\ loc' = [loc EXCEPT !.idx = loc.idx + 1]

\* The run of decrypt() ends with an exception raised in the step `at'.
fail(error, at) ==
    /\ pc' = "idle"
    /\ result' = "failed"
    /\ loc' = [loc EXCEPT !.error = error, !.failedAt = at]

\* decrypt() up to the end of _readKeyFile (lines 737-739, 499-540).
readKeyFile ==
    /\ pc = "idle"
    /\ runs < MaxRuns
    /\ runs' = runs + 1
    /\ UNCHANGED <<slicer, block_size, filename_length, version, verbose,
                   fileList, header, checksums, inputdir, outputdir, files,
                   hist, env>>
    /\ IF ~keyFile.exists
       THEN /\ pc' = "idle"
            /\ result' = "failed"
            /\ loc' = [NoLoc EXCEPT !.error = "FileNotFoundError",
                                    !.failedAt = "readKeyFile"]
            /\ UNCHANGED <<hashlength, keyhead, keycode>>
       ELSE
       LET keydata == keydataOf(keyFile.data)
           items == headerItems(keydata)
           badItem == badHeaderItem(items)
           code == codeOf(keydata)
           badLine == badCodeLine(code)
           failAt(error) ==
               /\ pc' = "idle"
               /\ result' = "failed"
               /\ loc' = [NoLoc EXCEPT !.error = error,
                                       !.failedAt = "readKeyFile"]
       IN  IF badItem # 0
           THEN /\ keyhead' = keyheadOf(items, badItem - 1)
                /\ failAt("IndexError")
                /\ UNCHANGED <<hashlength, keycode>>
           ELSE /\ keyhead' = keyheadOf(items, Len(items))
                /\ IF <<"hashlength">> \notin DOMAIN keyhead'
                   THEN failAt("KeyError") /\ UNCHANGED <<hashlength, keycode>>
                   ELSE IF ~isInt(keyhead'[<<"hashlength">>])
                   THEN failAt("ValueError") /\ UNCHANGED <<hashlength, keycode>>
                   ELSE /\ hashlength' = int(keyhead'[<<"hashlength">>])
                        /\ IF badLine # 0
                           THEN /\ \E section \in
                                       {code[i][1] : i \in 1..Len(code)} :
                                     keycode' = [s \in {section} |->
                                                   sectionOf(code, badLine - 1)]
                                /\ failAt(IF Len(code[badLine]) < 2
                                          THEN "IndexError" ELSE "ValueError")
                           ELSE /\ keycode' = keycodeOf(code)
                                /\ pc' = "setDecryptDir"
                                /\ result' = "running"
                                /\ loc' = NoLoc

\* The directory the fragment files are in: the output directory of
\* encrypt(), or the one they were moved to since.
fragDir == IF env.kind = "moved" THEN env.name ELSE OutDirName

\* JigsawFile._setDecryptDir with the fragment directory and an absolute
\* output file name given (lines 590-593, 614-615).
setDecryptDir ==
    /\ pc = "setDecryptDir"
    /\ inputdir' = fragDir
    /\ pc' = "openAudit"
    /\ UNCHANGED <<settings, fileList, header, checksums, keyhead, keycode,
                   outputdir, files, loc, result, runs, hist, env>>

\* decrypt(), lines 745-746: the audit file is opened, then the version
\* tag of the key file decides whether _decrypt1 runs.
\* auditFile is what the audit file holds once its handle is flushed.
openAudit ==
    /\ pc = "openAudit"
    /\ auditFile' = File(<<>>)
    /\ IF <<"version">> \notin DOMAIN keyhead
       THEN fail("KeyError", "openAudit")
       ELSE /\ pc' = IF keyhead[<<"version">>] = <<"JigsawFileONE">>
                     THEN "decrypt1" ELSE "compareHash"
            /\ UNCHANGED <<loc, result>>
    /\ UNCHANGED <<settings, fields, srcFile, jigDir, keyFile, outFile, runs,
                   hist, env>>

\* A sort in descending order.
RECURSIVE sortedDescending(_)
sortedDescending(S) ==
    IF S = {} THEN <<>>
    ELSE LET m == CHOOSE x \in S : \A y \in S : x >= y
         IN  <<m>> \o sortedDescending(S \ {m})

\* block_sequence.sort(): the keys in ascending order.
RECURSIVE sorted(_)
sorted(S) ==
    IF S = {} THEN <<>>
    ELSE LET m == CHOOSE x \in S : \A y \in S : x <= y
         IN  <<m>> \o sorted(S \ {m})

\* _decrypt1, lines 663-668: the output file is opened (created or
\* truncated) before the 'AA' section is looked up.
decrypt1Open ==
    /\ pc = "decrypt1"
    /\ outFile' = File(<<>>)
    /\ IF <<"AA">> \notin DOMAIN keycode
       THEN fail("KeyError", "decrypt1") /\ UNCHANGED keycode
       ELSE /\ keycode' = keycode[<<"AA">>]
            /\ loc' = [loc EXCEPT
                          !.block_sequence = sorted(DOMAIN keycode[<<"AA">>]),
                          !.idx = 1]
            /\ pc' = "decrypt1Loop"
            /\ UNCHANGED result
    /\ UNCHANGED <<settings, fileList, header, checksums, keyhead, inputdir,
                   outputdir, srcFile, jigDir, keyFile, auditFile, runs, hist,
                   env>>

\* An audit line that reports the recomputed digest as the recorded one.
auditLineRecomputedTwice(b, filename, blocksize, block, recorded, hash) ==
    join(<<str(b), filename, blocksize, str(Len(block)), hash, hash>>)

\* The audit line of one fragment (_decrypt1, lines 676-678).
auditLine(b, filename, blocksize, block, recorded, hash) ==
    join(<<str(b), filename, blocksize, str(Len(block)), recorded, hash>>)

\* _decryptVerbosity: the audit file after the line `data' is reported.
decryptVerbosity(audit, data) ==
    IF verbose = 1 \/ verbose = 2 THEN Append(audit, data) ELSE audit

\* A fragment path made of the directory recorded in the body line.
recordedPath(dir, entry) == joinSep(<<entry[2], entry[3]>>)

\* _decrypt1, lines 670-671: the path of the fragment file of an entry.
fragmentPath(dir, entry) == joinSep(<<dir, entry[3]>>)

\* open(path, 'rb'): whether a fragment file is at the path, and its bytes.
fileAt(path) == \E n \in DOMAIN jigDir : joinSep(<<fragDir, n>>) = path
readAt(path) ==
    jigDir[CHOOSE n \in DOMAIN jigDir : joinSep(<<fragDir, n>>) = path]

\* _decrypt1, lines 669-681: one pass of the loop over block_sequence.
\* The output file is written through a buffered handle that no code path
\* closes after an exception; outFile is what the file holds once the
\* handle is released and with it flushed.
decrypt1Block ==
    /\ pc = "decrypt1Loop"
    /\ loc.idx <= Len(loc.block_sequence)
    /\ LET b == loc.block_sequence[loc.idx]
           entry == keycode[b]
       IN  IF Len(entry) < 3
           THEN fail("IndexError", "decrypt1Loop")
                /\ UNCHANGED <<outFile, auditFile>>
           ELSE
           LET filename == fragmentPath(inputdir, entry)
               blocksize == entry[1]
           IN  IF ~fileAt(filename)
               THEN fail("FileNotFoundError", "decrypt1Loop")
                    /\ UNCHANGED <<outFile, auditFile>>
               ELSE
               LET block == readAt(filename)
                   hash == prefix(hexdigest(block), hashlength)
               IN  /\ outFile' = File(outFile.data \o block)
                   /\ IF Len(entry) < 4
                      THEN fail("IndexError", "decrypt1Loop")
                           /\ UNCHANGED auditFile
                      ELSE IF ~isInt(blocksize)
                      THEN fail("ValueError", "decrypt1Loop")
                           /\ UNCHANGED auditFile
                      ELSE /\ auditFile' = File(decryptVerbosity(auditFile.data,
                                  auditLine(b, filename, blocksize, block,
                                            entry[4], hash)))
                           /\ loc' = [loc EXCEPT
                                  !.idx = loc.idx + 1,
                                  !.expected = loc.expected + int(blocksize),
                                  !.actual = loc.actual + Len(block)]
                           /\ UNCHANGED <<pc, result>>
    /\ UNCHANGED <<settings, fields, srcFile, jigDir, keyFile, runs, hist, env>>

\* _decryptSummary: the three summary lines of the audit file.
decryptSummary(num_blocks, expected, actual) ==
    << str(num_blocks) \o <<" Jigsaw files processed ">>,
       <<"Expected number of bytes: ">> \o str(expected) \o <<" ">>,
       <<"Actual number of bytes  : ">> \o str(actual) \o <<" ">> >>

\* _decrypt1, lines 682-683: after the loop.
decrypt1Close ==
    /\ pc = "decrypt1Loop"
    /\ loc.idx > Len(loc.block_sequence)
    /\ auditFile' = File(auditFile.data \o
           decryptSummary(Len(loc.block_sequence), loc.expected, loc.actual))
    /\ pc' = "compareHash"
    /\ UNCHANGED <<settings, fields, srcFile, jigDir, keyFile, outFile, loc,
                   result, runs, hist, env>>

\* The lines _compareHash writes for the first n digests.
RECURSIVE compareLines(_, _, _)
compareLines(sums, head, n) ==
    IF n = 0 THEN << <<"File Hashs (Decrypted File vs Original Unencrypted File) ">> >>
    ELSE compareLines(sums, head, n - 1) \o
         << <<HashNames[n], ": ">> \o sums[n] \o <<" ">>,
            <<"  vs ">> \o head[<<HashNames[n]>>] \o <<" ">> >>

\* Number of leading digests of HashNames that the key header holds.
RECURSIVE knownDigests(_, _)
knownDigests(head, n) ==
    IF n < 6 /\ <<HashNames[n + 1]>> \in DOMAIN head
    THEN knownDigests(head, n + 1) ELSE n

\* JigsawFile._compareHash (lines 690-716).
compareHash ==
    /\ pc = "compareHash"
    /\ IF ~outFile.exists
       THEN fail("FileNotFoundError", "compareHash")
            /\ UNCHANGED <<checksums, auditFile>>
       ELSE /\ checksums' = generateHash(outFile.data)
            /\ LET n == knownDigests(keyhead, 0)
               IN  /\ auditFile' = File(auditFile.data \o
                                        compareLines(checksums', keyhead, n))
                   /\ IF n < 6
                      THEN fail("KeyError", "compareHash")
                      ELSE pc' = "finish" /\ UNCHANGED <<loc, result>>
    /\ UNCHANGED <<settings, fileList, header, keyhead, keycode, inputdir,
                   outputdir, srcFile, jigDir, keyFile, outFile, runs, hist,
                   env>>

\* decrypt(), lines 749-751: the run completes.
decryptFinish ==
    /\ pc = "finish"
    /\ pc' = "idle"
    /\ result' = "done"
    /\ UNCHANGED <<settings, fields, files, loc, runs, hist, env>>

\* ------------------------------------------------- the files are edited
\* What a fragment file is overwritten with.
AlteredContents == {<<>>, <<"z">>}

\* The header fields encrypt() writes.
HeaderFields == {"version", "inputdir", "infile", "hashlength", "md5",
                 "sha1", "sha224", "sha256", "sha384", "sha512"}

\* The files are edited only between a completed encrypt() and the next
\* run, and once.
editable == pc = "idle" /\ result = "returned" /\ env = NoEnv

\* The bytes of one fragment file of the last encrypt() run are altered; the
\* file still exists.
alterFragment ==
    /\ editable
    /\ \E name \in Range(hist.names) : \E c \in AlteredContents :
          /\ c # jigDir[name]
          /\ jigDir' = writeFile(jigDir, name, c)
          /\ env' = [kind |-> "altered", name |-> name, old |-> jigDir[name]]
    /\ UNCHANGED <<settings, fields, srcFile, keyFile, outFile, auditFile, pc,
                   loc, result, runs, hist>>

\* The header line of one field is deleted from the key file.
dropHeaderLine ==
    /\ editable
    /\ \E f \in HeaderFields :
          /\ keyFile' = File(SelectSeq(keyFile.data,
                LAMBDA x : ~(Len(x) >= 2 /\ x[1] = "#" /\ x[2] = f)))
          /\ env' = [kind |-> "header", name |-> <<f>>, old |-> <<>>]
    /\ UNCHANGED <<settings, fields, srcFile, jigDir, outFile, auditFile, pc,
                   loc, result, runs, hist>>

\* A line cut to its first n fields, or filled up to n fields.
resized(line, n) ==
    LET fs == split(line)
    IN  join([j \in 1..n |-> IF j <= Len(fs) THEN fs[j] ELSE <<"extra">>])

\* One body line of the key file gets a wrong number of fields.
resizeBodyLine ==
    /\ editable
    /\ \E i \in 1..Len(keyFile.data) : \E n \in {1, 2, 5, 7} :
          /\ ~startswithHash(keyFile.data[i])
          /\ keyFile' = File([keyFile.data EXCEPT ![i] = resized(@, n)])
          /\ env' = [kind |-> "fields", name |-> str(n), old |-> <<>>]
    /\ UNCHANGED <<settings, fields, srcFile, jigDir, outFile, auditFile, pc,
                   loc, result, runs, hist>>

\* The body lines of the key file get the scheme code of another scheme.
changeSchemeCode ==
    /\ editable
    /\ keyFile' = File([i \in 1..Len(keyFile.data) |->
                          IF startswithHash(keyFile.data[i])
                          THEN keyFile.data[i]
                          ELSE <<"BB">> \o Tail(keyFile.data[i])])
    /\ env' = [kind |-> "scheme", name |-> <<"BB">>, old |-> <<>>]
    /\ UNCHANGED <<settings, fields, srcFile, jigDir, outFile, auditFile, pc,
                   loc, result, runs, hist>>

\* The orders n lines can be put in.
LineOrders(n) ==
    {p \in [1..n -> 1..n] : \A i, j \in 1..n : i # j => p[i] # p[j]}

\* The body lines of the key file are put in another order.
permuteBodyLines ==
    /\ editable
    /\ LET hs == SelectSeq(keyFile.data, startswithHash)
           bs == SelectSeq(keyFile.data, LAMBDA x : ~startswithHash(x))
       IN  \E p \in LineOrders(Len(bs)) :
              /\ \E i \in 1..Len(bs) : p[i] # i
              /\ keyFile' = File(hs \o [i \in 1..Len(bs) |-> bs[p[i]]])
    /\ env' = [kind |-> "permuted", name |-> <<>>, old |-> <<>>]
    /\ UNCHANGED <<settings, fields, srcFile, jigDir, outFile, auditFile, pc,
                   loc, result, runs, hist>>

\* A file is put at the path decrypt() will be given for its output, after
\* an encrypt() run has ended.
outputExists ==
    /\ pc = "idle"
    /\ result \in {"returned", "raised"}
    /\ ~outFile.exists
    /\ \E c \in AlteredContents : outFile' = File(c)
    /\ UNCHANGED <<settings, fields, srcFile, jigDir, keyFile, auditFile, pc,
                   loc, result, runs, hist, env>>

\* One body line of the key file gets the scheme code of another scheme.
mixSchemeCode ==
    /\ editable
    /\ \E i \in 1..Len(keyFile.data) :
          /\ ~startswithHash(keyFile.data[i])
          /\ keyFile' = File([keyFile.data EXCEPT ![i] = <<"BB">> \o Tail(@)])
          /\ env' = [kind |-> "mixed", name |-> <<"BB">>, old |-> <<>>]
    /\ UNCHANGED <<settings, fields, srcFile, jigDir, outFile, auditFile, pc,
                   loc, result, runs, hist>>

\* One fragment file of the last encrypt() run is deleted.
removeFragment ==
    /\ editable
    /\ \E name \in Range(hist.names) :
          /\ jigDir' = [x \in DOMAIN jigDir \ {name} |-> jigDir[x]]
          /\ env' = [kind |-> "removed", name |-> name, old |-> jigDir[name]]
    /\ UNCHANGED <<settings, fields, srcFile, keyFile, outFile, auditFile, pc,
                   loc, result, runs, hist>>

\* JigsawFile.__init__ again: the caller goes on with a new instance, as
\* jsc.py does for every command; the files stay as they are.
newInstance ==
    /\ editable
    /\ slicer' = "even"
    /\ block_size' = 4096
    /\ filename_length' = 30
    /\ hashlength' = 16
    /\ version' = "JigsawFileONE"
    /\ verbose' = 1
    /\ fileList' = <<>>
    /\ header' = <<>>
    /\ checksums' = <<>>
    /\ keyhead' = <<>>
    /\ keycode' = <<>>
    /\ inputdir' = <<>>
    /\ outputdir' = <<>>
    /\ env' = [kind |-> "instance", name |-> <<>>, old |-> <<>>]
    /\ UNCHANGED <<files, pc, loc, result, runs, hist>>

\* The fragment files are moved to another directory, which decrypt() is
\* then given as the fragment directory.
moveFragments ==
    /\ editable
    /\ env' = [kind |-> "moved", name |-> <<"moved">>, old |-> OutDirName]
    /\ UNCHANGED <<settings, fields, files, pc, loc, result, runs, hist>>

\* A body line with another directory in its directory field.
redirected(line) == join([split(line) EXCEPT ![4] = <<"elsewhere">>])

\* The directory field of every body line of the key file is changed.
changeRecordedDir ==
    /\ editable
    /\ keyFile' = File([i \in 1..Len(keyFile.data) |->
                          IF startswithHash(keyFile.data[i])
                          THEN keyFile.data[i]
                          ELSE redirected(keyFile.data[i])])
    /\ env' = [kind |-> "recorded", name |-> <<"elsewhere">>, old |-> OutDirName]
    /\ UNCHANGED <<settings, fields, srcFile, jigDir, outFile, auditFile, pc,
                   loc, result, runs, hist>>

\* The calls of setting() that configure the slicing and the format.
SettingCallSlicing ==
    /\ runs = 0
    /\ \/ \E v \in {"even", "uneven"} : setting("slicer", v)
       \/ \E v \in BlockSizes : setting("blocksize", v)
       \/ \E v \in NameLengths : setting("filenamelength", v)
       \/ \E v \in Versions : setting("version", v)

\* encrypt() called on an instance that has not encrypted yet.
firstEncrypt == header = <<>> /\ encrypt

\* The field names and values the caller hands to _addHeader.
HeaderKeys == {<<"version">>, <<"#", "infile">>, <<"hashlength">>,
               <<"note", " ">>}
HeaderValues == {<<"1">>, <<>>, <<" ", "x">>, <<"x", " ">>, <<"x", " ", "y">>}

\* _addHeader called on an instance that has not run yet.
addHeaderCall ==
    /\ pc = "idle"
    /\ result = "none"
    /\ ~keyFile.exists
    /\ \E key \in HeaderKeys : \E value \in HeaderValues :
          header' = addHeader(header, key, value)
    /\ UNCHANGED <<settings, fileList, checksums, keyhead, keycode, inputdir,
                   outputdir, files, pc, loc, result, runs, hist, env>>

\* _writeKeyHeader called on that instance: the key file is created with
\* the header lines.
writeKeyHeaderCall ==
    /\ pc = "idle"
    /\ result = "none"
    /\ ~keyFile.exists
    /\ keyFile' = File(writeKeyHeader(header))
    /\ UNCHANGED <<settings, fields, srcFile, jigDir, outFile, auditFile, pc,
                   loc, result, runs, hist, env>>

\* A header is built, written to a key file, and the key file is parsed.
NextHeader ==
    \/ addHeaderCall
    \/ writeKeyHeaderCall
    \/ readKeyFile

SpecHeader == Init /\ [][NextHeader]_vars

\* The caller configures the instance and encrypts the source file into the
\* same output directory, again and again.
NextEncode ==
    \/ SettingCall
    \/ encrypt
    \/ evenSlicer
    \/ unevenSlicer
    \/ generateFilename
    \/ writeJigsawFile
    \/ encryptReturn

SpecEncode == Init /\ [][NextEncode]_vars

\* The caller configures the instance, encrypts the source file once and
\* decrypts, with the same instance or a new one; a fragment file may be
\* altered in between.
Next ==
    \/ SettingCall
    \/ firstEncrypt
    \/ evenSlicer
    \/ unevenSlicer
    \/ generateFilename
    \/ writeJigsawFile
    \/ encryptReturn
    \/ readKeyFile
    \/ setDecryptDir
    \/ openAudit
    \/ decrypt1Open
    \/ decrypt1Block
    \/ decrypt1Close
    \/ compareHash
    \/ decryptFinish
    \/ alterFragment
    \/ newInstance

Spec == Init /\ [][Next]_vars

\* The caller configures the instance, encrypts the source file once and
\* decrypts; the key file or the fragment directory may be edited in
\* between.
NextKeyFile ==
    \/ SettingCallSlicing
    \/ firstEncrypt
    \/ evenSlicer
    \/ unevenSlicer
    \/ generateFilename
    \/ writeJigsawFile
    \/ encryptReturn
    \/ readKeyFile
    \/ setDecryptDir
    \/ openAudit
    \/ decrypt1Open
    \/ decrypt1Block
    \/ decrypt1Close
    \/ compareHash
    \/ decryptFinish
    \/ dropHeaderLine
    \/ resizeBodyLine
    \/ changeSchemeCode
    \/ permuteBodyLines
    \/ mixSchemeCode
    \/ removeFragment
    \/ moveFragments
    \/ changeRecordedDir

SpecKeyFile == Init /\ [][NextKeyFile]_vars

\* The caller configures the instance, encrypts the source file once and
\* decrypts to a path that may hold a file already.
NextOutputExists ==
    \/ SettingCallSlicing
    \/ firstEncrypt
    \/ evenSlicer
    \/ unevenSlicer
    \/ generateFilename
    \/ writeJigsawFile
    \/ encryptReturn
    \/ readKeyFile
    \/ setDecryptDir
    \/ openAudit
    \/ decrypt1Open
    \/ decrypt1Block
    \/ decrypt1Close
    \/ compareHash
    \/ decryptFinish
    \/ outputExists

SpecOutputExists == Init /\ [][NextOutputExists]_vars

\* ------------------------------------------------------------ properties
encryptEnded == pc = "idle" /\ result \in {"returned", "raised"}
decryptEnded == pc = "idle" /\ result \in {"done", "failed"}

\* The body lines of the key file.
bodyLines == SelectSeq(keyFile.data, LAMBDA x : ~startswithHash(x))

\* The lengths of the blocks the slicer yielded in this run.
yieldedSizes == [i \in 1..Len(hist.yielded) |-> Len(hist.yielded[i])]

RECURSIVE Sum(_)
Sum(ns) == IF ns = <<>> THEN 0 ELSE Head(ns) + Sum(Tail(ns))

\* C1: decrypt() run on the key file of an encrypt() that returned, with
\* block size >= 1 and the files untouched in between, completes and writes
\* an output file whose bytes are those of the source file.
RoundTrip ==
    (decryptEnded /\ hist.returned /\ env = NoEnv /\ block_size >= 1)
        => (result = "done" /\ outFile = File(srcFile))

RoundTripWitness ==
    /\ decryptEnded /\ hist.returned /\ env = NoEnv /\ block_size >= 1
    /\ result = "done"
    /\ slicer = "uneven"
    /\ Len(hist.yielded) >= 3
    /\ outFile = File(srcFile)

\* The slicer has returned: the for loop of _encrypt1 is over.
slicingOver == pc = "close" /\ version = "JigsawFileONE"

\* C2 as stated, for every block size >= 0: once the slicer has returned,
\* the blocks it yielded, concatenated in yield order, are the file's bytes.
PartitionCompleteAnyBlockSize ==
    slicingOver => Flatten(hist.yielded) = srcFile

\* C2 amended, for block sizes >= 1: the blocks yielded so far are the bytes
\* of the file up to the read position, and all of them once the slicer has
\* returned.
PartitionComplete ==
    /\ Flatten(hist.yielded) = SubSeq(srcFile, 1, loc.fpos)
    /\ (slicingOver /\ block_size >= 1) => Flatten(hist.yielded) = srcFile

PartitionCompleteWitness ==
    /\ slicingOver
    /\ block_size >= 1
    /\ slicer = "even"
    /\ Len(hist.yielded) >= 3
    /\ Flatten(hist.yielded) = srcFile

\* ceil(L / B)
ceilDiv(L, B) == (L + B - 1) \div B

\* C3: an encode of L >= 1 bytes with the even slicer and block size B >= 1
\* makes exactly ceil(L/B) fragments, all of length B except the last, which
\* has L mod B bytes (B when L is a multiple of B); no empty fragment.
FixedModeSizing ==
    (encryptEnded /\ result = "returned" /\ slicer = "even"
        /\ block_size >= 1 /\ Len(srcFile) >= 1)
    => LET n == Len(hist.yielded)
           L == Len(srcFile)
       IN  /\ n = ceilDiv(L, block_size)
           /\ Len(hist.names) = n
           /\ \A i \in 1..(n - 1) : yieldedSizes[i] = block_size
           /\ yieldedSizes[n] = IF L % block_size = 0 THEN block_size
                                ELSE L % block_size

\* C4: an encode with the uneven slicer and block size B >= 1 makes fragments
\* that all but the last have a length in [B, 2B), whose lengths sum to the
\* file length, and none of which is the empty terminal read.
RandomizedModeSizing ==
    (encryptEnded /\ result = "returned" /\ slicer = "uneven"
        /\ block_size >= 1)
    => /\ \A i \in 1..(Len(hist.yielded) - 1) :
              /\ block_size <= yieldedSizes[i]
              /\ yieldedSizes[i] < 2 * block_size
       /\ Sum(yieldedSizes) = Len(srcFile)
       /\ \A i \in 1..Len(hist.yielded) : hist.yielded[i] # <<>>

\* C5: encoding a 0-byte file makes no fragment file and a key file without
\* body lines; decoding a key file without body lines completes and writes
\* a 0-byte output file.
ZeroByteFile ==
    /\ (encryptEnded /\ result = "returned" /\ srcFile = <<>>)
          => (hist.names = <<>> /\ bodyLines = <<>>)
    /\ (decryptEnded /\ keyFile.exists /\ bodyLines = <<>> /\ env = NoEnv)
          => (result = "done" /\ outFile = File(<<>>))

\* C6: in every state of an encrypt() run the names _generateFilename has
\* returned are pairwise different, and each fragment file written by the
\* run still holds the block it was written with.
NameUniqueness ==
    /\ \A i, j \in 1..Len(hist.names) :
          i # j => hist.names[i] # hist.names[j]
    /\ env = NoEnv =>
          \A i \in 1..Len(hist.names) :
             (i <= loc.count \/ (hist.returned /\ i <= Len(hist.yielded)))
                => (hist.names[i] \in DOMAIN jigDir
                    /\ jigDir[hist.names[i]] = hist.yielded[i])

NameUniquenessWitness ==
    /\ pc = "writeJigsawFile"
    /\ Len(hist.names) = 3
    /\ loc.count = 2

\* C7: no fragment written by an encrypt() run gets the name of a '.jig'
\* file that was in the output directory when the run started, as long as
\* the names of the configured length are enough for both.
CollisionAvoidance ==
    (filename_length >= 1
        /\ Cardinality(hist.preexisting) + Len(hist.names) <= MaxChars)
    => \A i \in 1..Len(hist.names) : hist.names[i] \notin hist.preexisting

\* C8: every encrypt() run that ends has returned the key file's path, and
\* the key file then has one body line per fragment file written.
EncodeCompletes ==
    encryptEnded =>
        /\ result = "returned"
        /\ Len(bodyLines) = Len(hist.names)

\* The audit lines decrypt() wrote for the fragment file `name': the lines
\* of six fields whose second field is the path of that file.
auditLinesOf(name) ==
    {fs \in {split(auditFile.data[i]) : i \in 1..Len(auditFile.data)} :
        Len(fs) = 6 /\ fs[2] = joinSep(<<inputdir, name>>)}

\* A decrypt() run has ended on the key file of an encrypt() that returned,
\* one of whose fragment files was altered in between.
decryptedAltered == decryptEnded /\ hist.returned /\ env.kind = "altered"

\* C9 as stated: after the bytes of one fragment file were altered, decrypt()
\* completes and the audit file has a line for that fragment whose recorded
\* truncated digest differs from the recomputed one.
FidelityMismatchAlwaysShown ==
    decryptedAltered =>
        /\ result = "done"
        /\ \E fs \in auditLinesOf(env.name) : fs[5] # fs[6]

\* C9 amended: decrypt() processes every fragment, compares the whole-file
\* digests and completes; with verbose 1 or 2 the audit file has a line for
\* the altered fragment with the truncated digest of the original bytes as
\* recorded and that of the altered bytes as recomputed, which differ when
\* hashlength keeps the whole digest and are equal when hashlength is 0;
\* with another verbose the audit file has no line for a fragment.
FidelityMismatchReported ==
    decryptedAltered =>
        /\ result = "done"
        /\ loc.idx = Len(hist.names) + 1
        /\ checksums = generateHash(outFile.data)
        /\ Len(compareLines(checksums, keyhead, 6)) <= Len(auditFile.data)
        /\ IF verbose \in {1, 2}
           THEN \E fs \in auditLinesOf(env.name) :
                   /\ fs[5] = prefix(hexdigest(env.old), hashlength)
                   /\ fs[6] = prefix(hexdigest(jigDir[env.name]), hashlength)
                   /\ hashlength >= HashWidth => fs[5] # fs[6]
                   /\ hashlength = 0 => fs[5] = fs[6]
           ELSE \A n \in DOMAIN jigDir : auditLinesOf(n) = {}

FidelityMismatchWitness ==
    /\ decryptedAltered
    /\ result = "done"
    /\ verbose = 2
    /\ Len(hist.names) >= 3
    /\ \E fs \in auditLinesOf(env.name) : fs[5] # fs[6]

\* C10: decrypt() of a key file that lacks a header field, or has a body
\* line with a wrong number of fields, or has body lines of another scheme
\* code, fails while the key file is parsed, before the output file is
\* created and before a fragment file is read.
FormatFailureAbortsEarly ==
    (decryptEnded /\ env.kind \in {"header", "fields", "scheme"})
        => /\ result = "failed"
           /\ loc.failedAt = "readKeyFile"
           /\ outFile = NoFile
           /\ loc.actual = 0

\* C11: decrypt() of a key file from which the header line of one of the
\* ten fields encrypt() writes was deleted ends in failure.
MissingHeaderFieldFails ==
    (decryptEnded /\ env.kind = "header") => result = "failed"

\* C12: a call of _generateFilename can always end: the only way out of its
\* `while True' loop is a drawn name that is not in fileList, so whenever
\* the loop is entered some name of the configured length is not in
\* fileList.
NameGenerationTerminates ==
    pc = "generateFilename"
        => \E randomName \in randomNames(filename_length) :
              notInFileList(randomName, fileList)

\* The mapping a header stands for: field name (without the '#' that
\* _addHeader puts in front) -> value.
headerMapping(h) ==
    [k \in {Tail(h[i].k) : i \in 1..Len(h)} |->
        h[CHOOSE i \in 1..Len(h) : Tail(h[i].k) = k].v]

\* _readKeyFile has parsed the key file _writeKeyHeader wrote for header.
headerParsed ==
    /\ keyFile.exists
    /\ keyFile.data = writeKeyHeader(header)
    /\ runs >= 1

\* No leading or trailing whitespace in any field name or value.
headerTrimmed ==
    \A i \in 1..Len(header) :
        /\ strip(Tail(header[i].k)) = Tail(header[i].k)
        /\ strip(header[i].v) = header[i].v

\* C13 as stated: for every header without '>>' in its names and values,
\* the mapping _readKeyFile parses is the one that was written.
HeaderRoundTripAnyValue ==
    headerParsed => keyhead = headerMapping(header)

\* C13 amended: the parsed mapping has the written field names and values
\* with the whitespace around them removed, so it is the written mapping
\* when no name or value starts or ends with whitespace.
HeaderRoundTrip ==
    headerParsed =>
        /\ \A i \in 1..Len(header) :
              /\ strip(Tail(header[i].k)) \in DOMAIN keyhead
              /\ keyhead[strip(Tail(header[i].k))] = strip(header[i].v)
        /\ \A k \in DOMAIN keyhead :
              \E i \in 1..Len(header) : strip(Tail(header[i].k)) = k
        /\ headerTrimmed => keyhead = headerMapping(header)

HeaderRoundTripWitness ==
    /\ headerParsed
    /\ headerTrimmed
    /\ Len(header) = 3
    /\ \E i \in 1..3 : header[i].v = <<"x", " ", "y">>
    /\ keyhead = headerMapping(header)

DecodeStateOrder ==
    (decryptEnded /\ result = "done")
    => /\ keyhead = keyheadOf(headerItems(keydataOf(keyFile.data)),
                              Len(headerItems(keydataOf(keyFile.data))))
       /\ inputdir = fragDir
       /\ loc.idx >= 1
       /\ loc.idx = Len(loc.block_sequence) + 1
       /\ loc.block_sequence = sorted(DOMAIN keycode)
       /\ outFile = File(Flatten([k \in 1..Len(loc.block_sequence) |->
                          jigDir[keycode[loc.block_sequence[k]][3]]]))
       /\ checksums = generateHash(outFile.data)

\* C16: when _readKeyFile has returned, keycode has one section per scheme
\* code of the body, and the section of code c has an entry for sequence s
\* exactly when the key file has a body line of code c and sequence s, the
\* entry being the fields after the sequence of such a line.
KeyBodyGrouped ==
    pc = "setDecryptDir" =>
        LET code == codeOf(keydataOf(keyFile.data))
            lines(c, s) == {i \in 1..Len(code) :
                               code[i][1] = c /\ int(code[i][2]) = s}
        IN  /\ DOMAIN keycode = {code[i][1] : i \in 1..Len(code)}
            /\ \A c \in DOMAIN keycode :
                  /\ \A i \in 1..Len(code) :
                        int(code[i][2]) \in DOMAIN keycode[c]
                            <=> lines(c, int(code[i][2])) # {}
                  /\ \A s \in DOMAIN keycode[c] :
                        \E i \in lines(c, s) : keycode[c][s] = from2(code[i])

\* The position, in sequence order, of the fragment file that was edited.
editedPosition == CHOOSE k \in 1..Len(hist.names) : hist.names[k] = env.name

SettingsImmutable ==
    [][(runs' # runs \/ pc # "idle") => UNCHANGED settings]_vars

\* C19: in every state of an encrypt() run the key file has one body line
\* per block written so far, the k-th of them carrying sequence number k-1,
\* the length of the k-th block the slicer yielded and the name of the file
\* that block was written to.
SequenceNumbering ==
    keyFile.exists =>
        /\ Len(bodyLines) = loc.count
        /\ \A k \in 1..Len(bodyLines) :
              LET fs == split(bodyLines[k])
              IN  /\ Len(fs) = 6
                  /\ fs[1] = <<"AA">>
                  /\ fs[2] = str(k - 1)
                  /\ fs[3] = str(Len(hist.yielded[k]))
                  /\ fs[5] = hist.names[k]
                  /\ jigDir[fs[5]] = hist.yielded[k]

SequenceNumberingWitness ==
    /\ pc = "encrypt1"
    /\ Len(bodyLines) = 3
    /\ split(bodyLines[3])[2] = <<"2">>
    /\ hist.yielded[2] # <<>>

\* C20: decrypt() opens each fragment at <fragment directory>/<file name of
\* the body line>: with the directory field of the body lines changed, or
\* with the fragments moved to another directory that is given as fragment
\* directory, it completes, reads the same fragment files and writes the
\* same bytes as with the key file and the directory of encrypt().
FragmentLookupByResolvedDir ==
    (decryptEnded /\ hist.returned
        /\ env.kind \in {"none", "recorded", "moved"})
    => /\ result = "done"
       /\ \A k \in 1..Len(hist.names) :
             split(auditFile.data[k])[2] = joinSep(<<fragDir, hist.names[k]>>)
       /\ loc.actual = Len(Flatten(hist.yielded))
       /\ outFile = File(Flatten(hist.yielded))

FragmentLookupWitness ==
    /\ decryptEnded /\ hist.returned /\ env.kind = "moved"
    /\ result = "done"
    /\ Len(hist.names) >= 2
    /\ keycode[0][2] = OutDirName
    /\ inputdir # OutDirName
    /\ srcFile # <<>>
    /\ outFile = File(srcFile)

====
